---------------------------- MODULE Spec2Model ----------------------------
(***************************************************************************)
(* The replanning node of the walker's navigation stack                    *)
(* (catkin_ws/src/control/path_finding/src/path_finding_node.cpp):         *)
(* AstarPathfindingNode, its callbacks and the pure functions they call.   *)
(*                                                                         *)
(* Units.  Lengths are integers in centimetres, times in tenths of a       *)
(* second, the tracking progress in hundredths (0.7 is 70).  A rigid       *)
(* transform is a translation by whole centimetres and a rotation by a     *)
(* multiple of 90 degrees, so that frame changes are exact.                *)
(*                                                                         *)
(* Pointers.  A null shared pointer is the id 0 (maps, footprints) or a    *)
(* record whose field "null" is TRUE (path, goal).                         *)
(***************************************************************************)
EXTENDS Integers, Sequences, FiniteSets, TLC

(***************************************************************************)
(* Program constants                                                       *)
(***************************************************************************)
kMaxLateralDisRobot2TrackedPt == 60
kThresPercentageOfArrival == 70
kThresObstacleDangerCost == 80
path_start_offsetx_ == 44
path_start_offsety_ == 0
kMaxCostRadius == 60
kAvgCostRadius == 100
kPathDeprecatedAge == 50
kSteadyStateDistance == 150
kTrackingLookahead == 99
kPreferSubgoalDistance == 800
kDistanceResolution == 60
kFirstDistanceIdx == 3
kFirstAngleIdx == 16
kLastAngleIdx == 2

(***************************************************************************)
(* Bounds of the model                                                     *)
(***************************************************************************)
MaxTime == 51
MaxVia == 0
MaxOverlap == 1
LongPathLen == 100

(***************************************************************************)
(* Integer arithmetic as the C++ code performs it                          *)
(***************************************************************************)
Abs(a) == IF a < 0 THEN -a ELSE a

\* int(a / b) for b > 0: truncation toward zero
TruncDiv(a, b) == IF a >= 0 THEN a \div b ELSE -((-a) \div b)

\* a % b in C++ for b > 0: the sign follows the dividend
CRem(a, b) == a - b * TruncDiv(a, b)

\* std::round(a / b) for b > 0: to nearest, halves away from zero
RoundDiv(a, b) ==
    IF a >= 0 THEN (2 * a + b) \div (2 * b) ELSE -((2 * (-a) + b) \div (2 * b))

(***************************************************************************)
(* Points and rigid transforms (tf::Vector3, tf::StampedTransform)         *)
(***************************************************************************)
Pt(px, py) == [x |-> px, y |-> py]

\* rotation by r quarter turns, counter-clockwise
Rot(r, p) ==
    CASE r = 0 -> p
      [] r = 1 -> Pt(-p.y, p.x)
      [] r = 2 -> Pt(-p.x, -p.y)
      [] OTHER -> Pt(p.y, -p.x)

\* a transform is p |-> Rot(r, p) + (x, y); tf * vec
Apply(tf, p) == LET q == Rot(tf.r, p) IN Pt(q.x + tf.x, q.y + tf.y)

\* tf.inverse()
Inverse(tf) ==
    LET r == (4 - tf.r) % 4
        t == Rot(r, Pt(-tf.x, -tf.y))
    IN  [x |-> t.x, y |-> t.y, r |-> r]

(***************************************************************************)
(* Messages the node receives.  nav_msgs::OccupancyGrid: resolution,       *)
(* origin, width, height and the row-major cost array (index 0 first).     *)
(***************************************************************************)
\* the maps delivered on local_map, by name:
\*   free       a 17 m x 17 m rolling map centred on the robot, 25 cm cells
\*   blocked    the same with an obstacle across the way ahead and unknown
\*              space beyond 6.5 m ahead
\*   collision  the same with an obstacle under the front of the robot
\*   small      a 4 m x 4 m map, 50 cm cells, with an inflated obstacle ahead
\* and the maps the functions of the node are applied to besides:
\*   haze       the rolling map with cost 80 everywhere but close to the robot
\*   tiny       5 x 4 cells of 25 cm: a costly last column, an unknown cell
\*              and a cheap cell
\*   edge       a free map that ends 25 cm ahead of the robot
CellCost(kind, col, row) ==
    CASE kind = "blocked" ->
           IF col >= 60 THEN -1
           ELSE IF col \in 39..41 /\ row \in 33..35 THEN 100
           ELSE 0
      [] kind = "collision" ->
           IF col = 36 /\ row = 34 THEN 100 ELSE 0
      [] kind = "small" ->
           IF col = 7 /\ row \in 3..5 THEN 100
           ELSE IF col = 6 /\ row \in 3..5 THEN 79
           ELSE 0
      [] kind = "haze" ->
           IF col \in 30..38 /\ row \in 30..38 THEN 0 ELSE 80
      [] kind = "tiny" ->
           IF col = 4 THEN 90
           ELSE IF col = 0 /\ row = 2 THEN -1
           ELSE IF col = 2 /\ row = 1 THEN 30
           ELSE 0
      [] OTHER -> 0

GridMap(id, kind, res, ox, oy, w, h) ==
    [id |-> id, resolution |-> res, origin_x |-> ox, origin_y |-> oy,
     width |-> w, height |-> h,
     data |-> [i \in 0..(w * h - 1) |-> CellCost(kind, i % w, i \div w)]]

MapTable ==
    << GridMap(1, "free", 25, -850, -850, 69, 69),
       GridMap(2, "blocked", 25, -850, -850, 69, 69),
       GridMap(3, "collision", 25, -850, -850, 69, 69),
       GridMap(4, "small", 50, -200, -200, 9, 9) >>

MapIds == 1..Len(MapTable)

ProbeMapTable ==
    << GridMap(5, "haze", 25, -850, -850, 69, 69),
       GridMap(6, "tiny", 25, -50, -50, 5, 4),
       GridMap(7, "edge", 25, -850, -850, 35, 69) >>

\* every map of the model, by its id
AllMaps == MapTable \o ProbeMapTable

\* geometry_msgs::PolygonStamped: the polygon's points, robot frame
FootprintTable ==
    << << Pt(50, 0), Pt(0, 25), Pt(-25, 0), Pt(0, -25) >> >>

FootprintIds == 1..Len(FootprintTable)

\* geometry_msgs::PoseStamped on /move_base_simple/goal: positions, odom frame
GoalPoints == { Pt(150, 0), Pt(1000, 0) }

\* std_msgs::Float32 on tracking_progress, in hundredths (values a float holds
\* exactly)
ProgressValues == { 50, 75 }

\* poses of base_link in the odom frame that the tf tree can hold
RobotPoses ==
    { [x |-> 0, y |-> 0, r |-> 0],
      [x |-> 100, y |-> 0, r |-> 1] }

\* the amounts by which the clock is observed to advance
TimeSteps == { 50, 51 }

NullPtr == 0
NullGoal == [null |-> TRUE, x |-> 0, y |-> 0]
GoalMsg(p) == [null |-> FALSE, x |-> p.x, y |-> p.y]
NullPath == [null |-> TRUE, stamp |-> 0, poses |-> << >>]

\* nav_msgs::Path(): no poses, header.stamp zero
NewPath == [null |-> FALSE, stamp |-> 0, poses |-> << >>]

\* empty_path of timer_cb: header.stamp = ros::Time()
EmptyPathMsg == [stamp |-> 0, poses |-> << >>]
PathMsg(path) == [stamp |-> path.stamp, poses |-> path.poses]

(***************************************************************************)
(* Cells                                                                   *)
(***************************************************************************)
MaxMapIdx(map) == map.width * map.height - 1
InGrid(map, idx) == idx >= 0 /\ idx <= MaxMapIdx(map)

\* std::round((x - map_origin_x) / map_resolution), likewise y, and
\* idx = map_y * map_width + map_x
CellX(map, p) == RoundDiv(p.x - map.origin_x, map.resolution)
CellY(map, p) == RoundDiv(p.y - map.origin_y, map.resolution)
CellIdx(map, p) == CellY(map, p) * map.width + CellX(map, p)

\* map_msg_ptr->data[idx]: the cell's cost, or, for an index outside the
\* array, whatever the memory holds (one representative per outcome of the
\* comparisons the callers make: below -1, -1, free, dangerous)
RawCost(map, idx) ==
    IF InGrid(map, idx) THEN { map.data[idx] } ELSE { -2, -1, 0, 100 }

(***************************************************************************)
(* Local cost kernels                                                      *)
(***************************************************************************)
\* int(std::floor(radius / map_resolution)), made odd
KernelSize(radius, map) ==
    LET k == radius \div map.resolution
    IN  k + (IF k % 2 = 0 THEN 1 ELSE 0)

\* a window cut at the ends of the array only
KernelOffsetsInArray(map, target_idx, bound) ==
    { o \in (-bound..bound) \X (-bound..bound) :
        LET op_idx == target_idx + o[1] + map.width * o[2]
        IN  ~(op_idx < 0 \/ op_idx > MaxMapIdx(map)) }

\* the offsets (x, y) of the window around target_idx whose cell passes both
\* tests: inside the array, and at most bound columns from the centre
KernelOffsets(map, target_idx, bound) ==
    { o \in (-bound..bound) \X (-bound..bound) :
        LET op_idx == target_idx + o[1] + map.width * o[2]
        IN  /\ ~(op_idx < 0 \/ op_idx > MaxMapIdx(map))
            /\ ~(Abs(CRem(op_idx, map.width) - CRem(target_idx, map.width)) > bound) }

\* the cells the kernel reads
KernelReads(map, target_idx, bound) ==
    { target_idx + o[1] + map.width * o[2] : o \in KernelOffsets(map, target_idx, bound) }

RECURSIVE MaxOver(_, _, _)
MaxOver(map, cells, cost) ==
    IF cells = {} THEN cost
    ELSE LET c == CHOOSE c \in cells : TRUE
         IN  MaxOver(map, cells \ {c},
                     IF map.data[c] > cost THEN map.data[c] ELSE cost)

get_local_max_cost(map, target_idx) ==
    LET kernel_size == KernelSize(kMaxCostRadius, map)
        bound == kernel_size \div 2
    IN  MaxOver(map, KernelReads(map, target_idx, bound), 0)

\* get_local_max_cost of every cell of every map of the model, computed once
MaxCostTable ==
    [m \in 1..Len(AllMaps) |->
        [idx \in 0..MaxMapIdx(AllMaps[m]) |-> get_local_max_cost(AllMaps[m], idx)]
          @@ << >>] @@ << >>

\* get_local_max_cost(map, idx), looked up for a cell of the map
MaxCostAt(map, idx) ==
    IF InGrid(map, idx) THEN MaxCostTable[map.id][idx]
    ELSE get_local_max_cost(map, idx)

RECURSIVE SumOver(_, _, _)
SumOver(map, target_idx, offsets) ==
    IF offsets = {} THEN 0
    ELSE LET o == CHOOSE o \in offsets : TRUE
         IN  map.data[target_idx + o[1] + map.width * o[2]]
               + SumOver(map, target_idx, offsets \ {o})

get_local_avg_cost(map, target_idx) ==
    LET kernel_size == KernelSize(kAvgCostRadius, map)
        bound == kernel_size \div 2
    IN  TruncDiv(SumOver(map, target_idx, KernelOffsets(map, target_idx, bound)),
                 kernel_size * kernel_size)

(***************************************************************************)
(* Safety predicates.  A predicate that reads map_msg_ptr->data[idx] at an *)
(* index outside the array has every result the value found there allows:  *)
(* each predicate is the set of results it can return.                     *)
(***************************************************************************)
\* localmap_utils::GetFootprintCells: the cell (column, row) of every point of
\* the footprint; no cells while no footprint has been received
GetFootprintCells(footprint_id, map) ==
    IF footprint_id = NullPtr THEN << >>
    ELSE LET pts == FootprintTable[footprint_id]
         IN  [i \in 1..Len(pts) |-> << CellX(map, pts[i]), CellY(map, pts[i]) >>]

\* data[idx] >= kThresObstacleDangerCost || data[idx] < 0
RawUnsafe(map, idx) ==
    { c >= kThresObstacleDangerCost \/ c < 0 : c \in RawCost(map, idx) }

is_footprint_safe(map, footprint_id) ==
    LET footprint_cells == GetFootprintCells(footprint_id, map)
        unsafe(i) == RawUnsafe(map, footprint_cells[i][2] * map.width + footprint_cells[i][1])
    IN  { b \in BOOLEAN :
            IF b THEN \A i \in 1..Len(footprint_cells) : FALSE \in unsafe(i)
            ELSE \E i \in 1..Len(footprint_cells) : TRUE \in unsafe(i) }

\* get_local_max_cost(map, idx) >= kThresObstacleDangerCost || data[idx] < 0
KernelUnsafe(map, idx) ==
    IF MaxCostAt(map, idx) >= kThresObstacleDangerCost THEN { TRUE }
    ELSE { c < 0 : c \in RawCost(map, idx) }

\* the test of the subgoal that passes a path without poses
is_subgoal_safe_unless_null(map, path, tf_odom2base) ==
    IF path.null THEN { FALSE }
    ELSE IF Len(path.poses) = 0 THEN { TRUE }
    ELSE LET vec_transformed == Apply(tf_odom2base, path.poses[1])
         IN  { ~u : u \in KernelUnsafe(map, CellIdx(map, vec_transformed)) }

is_subgoal_safe(map, path, tf_odom2base) ==
    IF path.null \/ Len(path.poses) = 0 THEN { FALSE }
    ELSE LET vec_transformed == Apply(tf_odom2base, path.poses[1])
         IN  { ~u : u \in KernelUnsafe(map, CellIdx(map, vec_transformed)) }

is_path_safe(map, path, tf_odom2base) ==
    IF path.null \/ Len(path.poses) = 0 THEN { FALSE }
    ELSE LET unsafe(i) ==
                 KernelUnsafe(map, CellIdx(map, Apply(tf_odom2base, path.poses[i])))
         IN  { b \in BOOLEAN :
                 IF b THEN \A i \in 1..Len(path.poses) : FALSE \in unsafe(i)
                 ELSE \E i \in 1..Len(path.poses) : TRUE \in unsafe(i) }

\* the indices at which is_subgoal_safe and is_path_safe can read
\* map_msg_ptr->data[idx] (the right-hand side of ||, evaluated when
\* get_local_max_cost is below the threshold) while they test the first n
\* poses of the path; is_path_safe goes on to a pose only past poses it
\* found safe
RawReads(map, path, tf_odom2base, n) ==
    LET idx(i) == CellIdx(map, Apply(tf_odom2base, path.poses[i]))
    IN  IF path.null THEN {}
        ELSE { idx(i) : i \in { i \in 1..n :
                 /\ i <= Len(path.poses)
                 /\ \A e \in 1..(i - 1) : FALSE \in KernelUnsafe(map, idx(e))
                 /\ ~(MaxCostAt(map, idx(i)) >= kThresObstacleDangerCost) } }

\* a path with poses never taken to be too old
is_path_deprecated_if_empty(path, time_now) ==
    path.null \/ Len(path.poses) = 0

\* a path taken to be too old from the age of 5.0 s on
is_path_deprecated_from_age(path, time_now) ==
    IF path.null \/ Len(path.poses) = 0 THEN TRUE
    ELSE time_now - path.stamp >= kPathDeprecatedAge

\* ros::Time::now() - path_ptr->header.stamp > ros::Duration(5.0)
is_path_deprecated(path, time_now) ==
    IF path.null \/ Len(path.poses) = 0 THEN TRUE
    ELSE time_now - path.stamp > kPathDeprecatedAge

\* int target_idx = path_ptr->poses.size() * (0.99 - tracking_progress_percentage)
TrackingIdx(size, progress) == TruncDiv(size * (kTrackingLookahead - progress), 100)

\* the test of the tracked pose that looks for a null path only
is_robot_following_path_unless_null(path, progress, tf_odom2base) ==
    IF path.null THEN { FALSE }
    ELSE LET target_idx == TrackingIdx(Len(path.poses), progress)
         IN  IF target_idx < 0 \/ target_idx >= Len(path.poses) THEN BOOLEAN
             ELSE LET tracking_pt_baseframe ==
                          Apply(tf_odom2base, path.poses[target_idx + 1])
                  IN  { ~(Abs(tracking_pt_baseframe.y) >= kMaxLateralDisRobot2TrackedPt) }

\* poses[target_idx] outside the vector is any point: either result
is_robot_following_path(path, progress, tf_odom2base) ==
    IF path.null \/ Len(path.poses) < 1 THEN { FALSE }
    ELSE LET target_idx == TrackingIdx(Len(path.poses), progress)
         IN  IF target_idx < 0 \/ target_idx >= Len(path.poses) THEN BOOLEAN
             ELSE LET tracking_pt_baseframe ==
                          Apply(tf_odom2base, path.poses[target_idx + 1])
                  IN  { ~(Abs(tracking_pt_baseframe.y) >= kMaxLateralDisRobot2TrackedPt) }

(***************************************************************************)
(* Unsafe-subgoal recovery                                                 *)
(***************************************************************************)
\* the walk along the waypoints that tests the smoothed cost only
RECURSIVE ApproachFromIgnoresUnknown(_, _, _, _)
ApproachFromIgnoresUnknown(map, path, tf_odom2base, k) ==
    IF k > Len(path.poses) THEN { Pt(0, 0) }
    ELSE LET vec_base_frame == Apply(tf_odom2base, path.poses[k])
         IN  IF MaxCostAt(map, CellIdx(map, vec_base_frame)) >= kThresObstacleDangerCost
             THEN ApproachFromIgnoresUnknown(map, path, tf_odom2base, k + 1)
             ELSE { vec_base_frame }

\* the waypoints from the k-th on: the first one found safe, else (0, 0)
RECURSIVE ApproachFrom(_, _, _, _)
ApproachFrom(map, path, tf_odom2base, k) ==
    IF k > Len(path.poses) THEN { Pt(0, 0) }
    ELSE LET vec_base_frame == Apply(tf_odom2base, path.poses[k])
             unsafe == KernelUnsafe(map, CellIdx(map, vec_base_frame))
         IN  (IF FALSE \in unsafe THEN { vec_base_frame } ELSE {})
               \cup (IF TRUE \in unsafe
                     THEN ApproachFrom(map, path, tf_odom2base, k + 1) ELSE {})

approach_unsafe_subgoal(map, path, tf_odom2base) ==
    IF path.null \/ Len(path.poses) = 0 THEN { Pt(0, 0) }
    ELSE ApproachFrom(map, path, tf_odom2base, 1)

(***************************************************************************)
(* Subgoal generation.  Angles are multiples of 10 degrees; sines and      *)
(* cosines are held in thousandths, distances for the score in             *)
(* millimetres, scores in ten-thousandths.                                 *)
(***************************************************************************)
\* 1000 * sin(10 i degrees) and 1000 * cos(10 i degrees), i = 1..17
SinK == << 174, 342, 500, 643, 766, 866, 940, 985, 1000,
           985, 940, 866, 766, 643, 500, 342, 174 >>
CosK == << 985, 940, 866, 766, 643, 500, 342, 174, 0,
           -174, -342, -500, -643, -766, -866, -940, -985 >>

RECURSIVE IsqrtIn(_, _, _)
IsqrtIn(n, lo, hi) ==
    IF lo >= hi THEN lo
    ELSE LET mid == (lo + hi + 1) \div 2
         IN  IF mid * mid <= n THEN IsqrtIn(n, mid, hi) ELSE IsqrtIn(n, lo, mid - 1)

\* the integer part of the square root, 0 <= n < 2^31
Isqrt(n) == IsqrtIn(n, 0, 46340)

\* std::hypot of two lengths in millimetres
Hypot(dx, dy) == Isqrt(dx * dx + dy * dy)

\* std::round(prefer_subgoal_distance / distance_resolution)
max_distance_idx == RoundDiv(kPreferSubgoalDistance, kDistanceResolution)

\* the cell sampled on ray i at step j:
\* round((tmp_dis * sin(theta) - map_origin_x + path_start_offsetx_) / res) and
\* round((tmp_dis * cos(theta) - map_origin_y + path_start_offsety_) / res)
RayCellIdx(map, i, j) ==
    LET map_x == RoundDiv(kDistanceResolution * j * SinK[i]
                            + 1000 * (path_start_offsetx_ - map.origin_x),
                          1000 * map.resolution)
        map_y == RoundDiv(kDistanceResolution * j * CosK[i]
                            + 1000 * (path_start_offsety_ - map.origin_y),
                          1000 * map.resolution)
    IN  map_y * map.width + map_x

\* pt = (path_start_offsetx_, path_start_offsety_) + tmp_dis * (sin, cos),
\* with tmp_dis = distance_resolution * j
RayPoint(i, j) ==
    Pt(path_start_offsetx_ + RoundDiv(kDistanceResolution * j * SinK[i], 1000),
       path_start_offsety_ + RoundDiv(kDistanceResolution * j * CosK[i], 1000))

\* score = (1 - obstacle_cost / 100) + (1 - dis_subgoal2finalgoal / dis_base2goal / 2)
CandidateScore(obstacle_cost, goal_base, i, j) ==
    LET dis_base2goal == Hypot(10 * goal_base.x, 10 * goal_base.y)
        dis_subgoal2finalgoal ==
            Hypot(RoundDiv(10 * kDistanceResolution * j * SinK[i], 1000)
                    + 10 * path_start_offsetx_ - 10 * goal_base.x,
                  RoundDiv(10 * kDistanceResolution * j * CosK[i], 1000)
                    + 10 * path_start_offsety_ - 10 * goal_base.y)
    IN  IF dis_base2goal = 0 THEN -1   \* a division by 0.0: never above max_j_score
        ELSE (10000 - 100 * obstacle_cost)
               + (10000 - RoundDiv(10000 * dis_subgoal2finalgoal, 2 * dis_base2goal))

\* the inner loop of ray i from step j on, with the best score and step so
\* far: the (max_j_score, candidate_j_list[16 - i]) pairs it can end with
RECURSIVE RayFrom(_, _, _, _, _, _)
RayFrom(map, goal_base, i, j, max_j_score, best_j) ==
    IF j > max_distance_idx THEN { [score |-> max_j_score, j |-> best_j] }
    ELSE LET idx == RayCellIdx(map, i, j)
             obstacle_cost == MaxCostAt(map, idx)
             stop == IF obstacle_cost > kThresObstacleDangerCost THEN { TRUE }
                     ELSE { c = -1 : c \in RawCost(map, idx) }
             score == CandidateScore(obstacle_cost, goal_base, i, j)
             better == score > max_j_score
         IN  (IF TRUE \in stop THEN { [score |-> max_j_score, j |-> best_j] } ELSE {})
               \cup (IF FALSE \in stop
                     THEN RayFrom(map, goal_base, i, j + 1,
                                  IF better THEN score ELSE max_j_score,
                                  IF better THEN j ELSE best_j)
                     ELSE {})

\* candidate_score_list and candidate_j_list, ray by ray in the order pushed:
\* position k holds ray i = 16 - (k - 1)
RayOutcomes(map, goal_base) ==
    [k \in 1..(kFirstAngleIdx - kLastAngleIdx + 1) |->
        RayFrom(map, goal_base, kFirstAngleIdx - (k - 1), kFirstDistanceIdx, 0, 0)]

\* argmax: the first position holding the largest score.  Position k with
\* outcome o is the one chosen for some results of the other rays exactly when
\* each earlier ray can score below o and each later ray can score at most o.
RadialSearch(map, goal_base) ==
    LET rays == RayOutcomes(map, goal_base)
        chosen(k, o) ==
            /\ \A e \in 1..(k - 1) : \E q \in rays[e] : q.score < o.score
            /\ \A l \in (k + 1)..Len(rays) : \E q \in rays[l] : q.score <= o.score
    IN  { RayPoint(kFirstAngleIdx - (k - 1), o.j) :
            <<k, o>> \in { ko \in UNION { {k} \X rays[k] : k \in 1..Len(rays) } :
                            chosen(ko[1], ko[2]) } }

\* whether the goal's cell is taken to lie outside the map:
\* int((x - map_origin_x) / res) >= map_width || int((y - map_origin_y) / res) >= map_height
GoalOutOfRange(map, goal_base) ==
    \/ TruncDiv(goal_base.x - map.origin_x, map.resolution) >= map.width
    \/ TruncDiv(goal_base.y - map.origin_y, map.resolution) >= map.height

\* the points generate_subgoal can return (robot frame)
generate_subgoal(map, goal, tf_base2odom) ==
    LET tf_odom2base == Inverse(tf_base2odom)
        vec_goal_base_frame == Apply(tf_odom2base, Pt(goal.x, goal.y))
    IN  IF GoalOutOfRange(map, vec_goal_base_frame)
        THEN RadialSearch(map, vec_goal_base_frame)
        ELSE { vec_goal_base_frame }

\* every way of taking one outcome of each of the first k rays
RECURSIVE RayChoices(_, _)
RayChoices(rays, k) ==
    IF k = 0 THEN { << >> }
    ELSE { Append(c, o) : c \in RayChoices(rays, k - 1), o \in rays[k] }

\* the position (from 0) of the last of the largest elements
ArgMaxLast(list) ==
    LET k == CHOOSE k \in 1..Len(list) :
                 /\ \A e \in 1..(k - 1) : list[e] <= list[k]
                 /\ \A l \in (k + 1)..Len(list) : list[l] < list[k]
    IN  k - 1

\* argmax: std::distance(first, std::max_element(first, last)), the position
\* (from 0) of the first of the largest elements
ArgMax(list) ==
    LET k == CHOOSE k \in 1..Len(list) :
                 /\ \A e \in 1..(k - 1) : list[e] < list[k]
                 /\ \A l \in (k + 1)..Len(list) : list[l] <= list[k]
    IN  k - 1

\* the points pushed into mkr_subgoal_candidate_, two per ray: the start of
\* the ray and its best candidate
CandidatePoints(c) ==
    [n \in 1..(2 * Len(c)) |->
        IF n % 2 = 1 THEN Pt(path_start_offsetx_, path_start_offsety_)
        ELSE RayPoint(kFirstAngleIdx - (n \div 2 - 1), c[n \div 2].j)]

\* a marker that keeps the points of the call before
MarkerKept(points) == points

\* mkr_subgoal_candidate_.points.clear()
MarkerReset(points) == << >>

\* generate_subgoal as the member function it is: called while
\* mkr_subgoal_candidate_ holds points, the point it can return (pt), whether
\* the radial search ran, the ray i and the step j of the candidate it chose,
\* candidate_score_list with candidate_j_list (rays), and the points it
\* leaves in the marker.  candidate_score_list and
\* candidate_j_list are locals, the latter zero-initialised.
GenerateSubgoalFrom(points, map, goal, tf_base2odom) ==
    LET tf_odom2base == Inverse(tf_base2odom)
        vec_goal_base_frame == Apply(tf_odom2base, Pt(goal.x, goal.y))
        cleared == MarkerReset(points)
    IN  IF GoalOutOfRange(map, vec_goal_base_frame)
        THEN LET rays == RayOutcomes(map, vec_goal_base_frame)
             IN  { LET pts == cleared \o CandidatePoints(c)
                       index == ArgMax([k \in 1..Len(c) |-> c[k].score])
                   IN  [pt |-> pts[(index * 2 + 1) + 1], radial |-> TRUE,
                        i |-> kFirstAngleIdx - index, j |-> c[index + 1].j,
                        rays |-> c, points |-> pts] :
                   c \in RayChoices(rays, Len(rays)) }
        ELSE { [pt |-> vec_goal_base_frame, radial |-> FALSE, i |-> 0, j |-> 0,
                rays |-> << >>, points |-> cleared] }

\* generate_subgoal for every map of MapTable, goal and transform of the
\* model, computed once
SubgoalTable ==
    [a \in (1..Len(MapTable)) \X GoalPoints \X RobotPoses |->
        generate_subgoal(MapTable[a[1]], a[2], a[3])] @@ << >>

SubgoalAt(map, goal, tf_base2odom) ==
    SubgoalTable[<< map.id, Pt(goal.x, goal.y), tf_base2odom >>]

(***************************************************************************)
(* The grid-search primitive, astar::Solver::FindPathByHashmap, at its     *)
(* boundary: it fails (leaving the path it was given without poses) or     *)
(* fills the path with the centres of a chain of cells that leads from the *)
(* target cell back to the origin cell, robot frame.                       *)
(***************************************************************************)
CellPoint(map, col, row) ==
    Pt(col * map.resolution + map.origin_x, row * map.resolution + map.origin_y)

\* the chain with via cells between target and origin
SolverPath(map, origin_idx, target_idx, via) ==
    LET tc == target_idx % map.width
        tr == target_idx \div map.width
        oc == origin_idx % map.width
        orow == origin_idx \div map.width
    IN  [m \in 1..(via + 2) |->
            CellPoint(map, tc + TruncDiv((oc - tc) * (m - 1), via + 1),
                           tr + TruncDiv((orow - tr) * (m - 1), via + 1))]

FindPathByHashmap(map, origin_idx, target_idx) ==
    { [success |-> FALSE, poses |-> << >>] }
      \cup (IF InGrid(map, origin_idx) /\ InGrid(map, target_idx)
            THEN { [success |-> TRUE, poses |-> SolverPath(map, origin_idx, target_idx, via)] :
                     via \in 0..MaxVia }
            ELSE {})

(***************************************************************************)
(* State                                                                   *)
(***************************************************************************)
VARIABLES
    \* fields of AstarPathfindingNode
    flag_planning_busy_,
    localmap_ptr_,
    footprint_ptr_,
    finalgoal_ptr_,
    walkable_path_ptr_,
    tracking_progress_percentage_,
    \* the world: ros::Time::now() and the pose of base_link in odom
    time_now,
    robot_pose,
    \* where timer_cb and finalgoal_cb stand ("idle", "body", "solve") and the
    \* locals they hold across the call of the solver
    pc_timer,
    pc_goal,
    timer_frame,
    goal_frame,
    \* callbacks the dispatcher may still start while another is in progress
    overlaps_left,
    \* what the most recent callback did
    ev,             \* the step taken last by a callback
    entry_flag,     \* flag_planning_busy_ as that callback found it
    msg,            \* the map it was handed (localmap_cb), else NullPtr
    branch,         \* the branch timer_cb took
    eval,           \* the values timer_cb computed before branching
    published,      \* messages sent on walkable_path, in order
    statuses,       \* texts sent on robot_status, in order
    solver_calls,   \* calls of FindPathByHashmap
    solver_result,  \* "none", "success" or "failure"
    \* the function of the node applied last to arguments of its own, with
    \* what it returned and the points it left in mkr_subgoal_candidate_
    call

node == << flag_planning_busy_, localmap_ptr_, footprint_ptr_, finalgoal_ptr_,
           walkable_path_ptr_, tracking_progress_percentage_ >>
world == << time_now, robot_pose >>
control == << pc_timer, pc_goal, timer_frame, goal_frame >>
observed == << ev, entry_flag, msg, branch, eval, published, statuses,
               solver_calls, solver_result >>
vars == << node, world, control, overlaps_left, observed, call >>

NoFrame == [map |-> NullPtr, tf |-> [x |-> 0, y |-> 0, r |-> 0],
            origin_idx |-> 0, target_idx |-> 0, goal |-> NullGoal]

NoEval == [ready |-> FALSE, tf_ok |-> FALSE, tf |-> [x |-> 0, y |-> 0, r |-> 0],
           footprint_safe |-> FALSE, subgoal_safe |-> FALSE, path_safe |-> FALSE,
           path_deprecated |-> FALSE, robot_following_path |-> FALSE,
           dis2 |-> 0, resolution |-> 0, progress |-> 0, path_present |-> FALSE]

\* no function applied yet; mkr_subgoal_candidate_ holds no points
NoCall == [fn |-> "none", points |-> << >>]

\* the node as its constructor leaves it
InitNode ==
    /\ flag_planning_busy_ = FALSE
    /\ localmap_ptr_ = NullPtr
    /\ footprint_ptr_ = NullPtr
    /\ finalgoal_ptr_ = NullGoal
    /\ walkable_path_ptr_ = NullPath
    /\ tracking_progress_percentage_ = 0
    /\ time_now = 0
    /\ robot_pose \in RobotPoses
    /\ pc_timer = "idle"
    /\ pc_goal = "idle"
    /\ timer_frame = NoFrame
    /\ goal_frame = NoFrame
    /\ ev = "init"
    /\ entry_flag = FALSE
    /\ msg = NullPtr
    /\ branch = "none"
    /\ eval = NoEval
    /\ published = << >>
    /\ statuses = << >>
    /\ solver_calls = 0
    /\ solver_result = "none"
    /\ call = NoCall

\* main() runs ros::spin(): one thread takes the callbacks off the queue one
\* at a time, so none starts while another is in progress
Init == InitNode /\ overlaps_left = 0

\* a dispatcher that does not wait for the callback in progress
CanDispatchAnytime == TRUE

\* no callback is in progress
CanDispatch == pc_timer = "idle" /\ pc_goal = "idle"

\* a callback is taken off the queue when none is in progress, or else on a
\* thread the dispatcher has to spare
Dispatch ==
    /\ CanDispatch \/ overlaps_left > 0
    /\ overlaps_left' = IF CanDispatch THEN overlaps_left ELSE overlaps_left - 1

(***************************************************************************)
(* Pieces of the callbacks                                                 *)
(***************************************************************************)
\* waitForTransform / lookupTransform(path_frame_id_, "/base_link"): the pose
\* the tf tree holds, or, when the lookup throws, the StampedTransform the
\* callback declared and never assigned (any transform)
LookupTransform ==
    { [ok |-> TRUE, tf |-> robot_pose] }
      \cup { [ok |-> FALSE, tf |-> g] : g \in RobotPoses }

\* timer_cb, the flags and the distance computed before the branch
Evaluate(look) ==
    LET map == MapTable[localmap_ptr_]
    IN  { [ready |-> TRUE, tf_ok |-> look.ok, tf |-> look.tf,
           footprint_safe |-> fs, subgoal_safe |-> ss, path_safe |-> ps,
           path_deprecated |-> is_path_deprecated(walkable_path_ptr_, time_now),
           robot_following_path |-> rf,
           dis2 |-> (look.tf.x - finalgoal_ptr_.x) * (look.tf.x - finalgoal_ptr_.x)
                      + (look.tf.y - finalgoal_ptr_.y) * (look.tf.y - finalgoal_ptr_.y),
           resolution |-> map.resolution,
           progress |-> tracking_progress_percentage_,
           path_present |-> ~walkable_path_ptr_.null] :
          fs \in is_footprint_safe(map, footprint_ptr_),
          ss \in is_subgoal_safe(map, walkable_path_ptr_, Inverse(look.tf)),
          ps \in is_path_safe(map, walkable_path_ptr_, Inverse(look.tf)),
          rf \in is_robot_following_path(walkable_path_ptr_,
                                         tracking_progress_percentage_, Inverse(look.tf)) }

\* a comparison that leaves the boundary out
DisBelow(e, d) == e.dis2 < d * d

\* dis_robot2goal <= d, with dis_robot2goal = hypot(...) and d >= 0
DisAtMost(e, d) == e.dis2 <= d * d

\* the chain with the test of arrival ahead of the test of the footprint
TimerBranchArrivalFirst(e) ==
    IF e.dis2 <= (e.resolution * 2) * (e.resolution * 2) THEN "arrival"
    ELSE IF ~e.footprint_safe THEN "collision"
    ELSE IF /\ (e.dis2 <= kSteadyStateDistance * kSteadyStateDistance
                  \/ e.progress < kThresPercentageOfArrival)
            /\ e.path_safe
            /\ e.robot_following_path
            /\ ~e.path_deprecated
         THEN "steady"
    ELSE IF e.progress >= kThresPercentageOfArrival THEN "subgoal_arrival"
    ELSE IF e.path_present /\ ~e.subgoal_safe THEN "unsafe_subgoal"
    ELSE IF e.path_present /\ (~e.path_safe \/ e.path_deprecated) THEN "unsafe_path"
    ELSE IF e.path_present /\ ~e.robot_following_path THEN "off_path"
    ELSE "no_path"

\* the chain whose test of the stored path leaves its age out
TimerBranchIgnoresAge(e) ==
    IF ~e.footprint_safe THEN "collision"
    ELSE IF DisAtMost(e, e.resolution * 2) THEN "arrival"
    ELSE IF /\ (DisAtMost(e, kSteadyStateDistance) \/ e.progress < kThresPercentageOfArrival)
            /\ e.path_safe
            /\ e.robot_following_path
            /\ ~e.path_deprecated
         THEN "steady"
    ELSE IF e.progress >= kThresPercentageOfArrival THEN "subgoal_arrival"
    ELSE IF e.path_present /\ ~e.subgoal_safe THEN "unsafe_subgoal"
    ELSE IF e.path_present /\ ~e.path_safe THEN "unsafe_path"
    ELSE IF e.path_present /\ ~e.robot_following_path THEN "off_path"
    ELSE "no_path"

\* timer_cb, the chain of if / else if that picks what the tick does
TimerBranch(e) ==
    IF ~e.footprint_safe THEN "collision"
    ELSE IF DisAtMost(e, e.resolution * 2) THEN "arrival"
    ELSE IF /\ (DisAtMost(e, kSteadyStateDistance) \/ e.progress < kThresPercentageOfArrival)
            /\ e.path_safe
            /\ e.robot_following_path
            /\ ~e.path_deprecated
         THEN "steady"
    ELSE IF e.progress >= kThresPercentageOfArrival THEN "subgoal_arrival"
    ELSE IF e.path_present /\ ~e.subgoal_safe THEN "unsafe_subgoal"
    ELSE IF e.path_present /\ (~e.path_safe \/ e.path_deprecated) THEN "unsafe_path"
    ELSE IF e.path_present /\ ~e.robot_following_path THEN "off_path"
    ELSE "no_path"

\* timer_cb, the replanning branches: the subgoal point chosen (robot frame)
\* and the texts sent on robot_status while choosing it
TimerSubgoal(br, e) ==
    LET map == MapTable[localmap_ptr_]
        fresh(text) == { [pt |-> p, status |-> text] :
                           p \in SubgoalAt(map, finalgoal_ptr_, e.tf) }
    IN  CASE br = "subgoal_arrival" ->
               fresh(<< "subgoal arrival, generate new subgoal" >>)
          [] br = "unsafe_subgoal" ->
               UNION { IF r.x = 0 /\ r.y = 0
                       THEN fresh(<< "new subgoal is generated" >>)
                       ELSE { [pt |-> r, status |-> << "approach unsafe subgoal" >>] } :
                       r \in approach_unsafe_subgoal(map, walkable_path_ptr_, Inverse(e.tf)) }
          [] br = "unsafe_path" ->
               { [pt |-> p,
                  status |-> IF ~e.path_safe THEN << "old path is not safe" >>
                             ELSE << "subgoal is too old" >>] :
                 p \in IF Len(walkable_path_ptr_.poses) = 0
                       THEN { Pt(0, 0), Pt(10000, 10000) }   \* *poses.begin() of no poses
                       ELSE { Apply(Inverse(e.tf), walkable_path_ptr_.poses[1]) } }
          [] br = "off_path" ->
               fresh(<< "robot is not on the path" >>)
          [] OTHER ->
               fresh(<< >>)

\* the cell in front of the robot from which every plan starts
OriginIdx(map) ==
    RoundDiv(-map.origin_y + path_start_offsety_, map.resolution) * map.width
      + RoundDiv(-map.origin_x + path_start_offsetx_, map.resolution)

\* the path found, its poses taken from the robot frame to the odom frame
\* and stamped ros::Time::now()
SolvedPath(poses, tf_base2odom) ==
    [null |-> FALSE, stamp |-> time_now,
     poses |-> [i \in 1..Len(poses) |-> Apply(tf_base2odom, poses[i])]]

\* the record of a callback that starts a decision cycle
CycleStarts(step) ==
    /\ ev' = step
    /\ entry_flag' = flag_planning_busy_
    /\ msg' = NullPtr
    /\ branch' = "none"
    /\ eval' = NoEval
    /\ published' = << >>
    /\ statuses' = << >>
    /\ solver_calls' = 0
    /\ solver_result' = "none"

\* the record of a callback that only stores what it is handed; it clears
\* the record of the last cycle unless a cycle is in progress
Stores(step, m) ==
    /\ ev' = step
    /\ entry_flag' = flag_planning_busy_
    /\ msg' = m
    /\ IF pc_timer = "idle" /\ pc_goal = "idle"
       THEN /\ branch' = "none"
            /\ eval' = NoEval
            /\ published' = << >>
            /\ statuses' = << >>
            /\ solver_calls' = 0
            /\ solver_result' = "none"
       ELSE UNCHANGED << branch, eval, published, statuses, solver_calls, solver_result >>

(***************************************************************************)
(* Callbacks.  timer_cb and finalgoal_cb are taken in steps (entry, body,  *)
(* return of the solver); the other callbacks are single steps.            *)
(***************************************************************************)
\* timer_cb: the lock
TimerEnter ==
    /\ pc_timer = "idle"
    /\ IF flag_planning_busy_
       THEN /\ ev' = "timer_skip"
            /\ entry_flag' = flag_planning_busy_
            /\ UNCHANGED << node, control, msg, branch, eval, published, statuses,
                            solver_calls, solver_result >>
       ELSE /\ flag_planning_busy_' = TRUE
            /\ pc_timer' = "body"
            /\ CycleStarts("timer_enter")
            /\ UNCHANGED << localmap_ptr_, footprint_ptr_, finalgoal_ptr_,
                            walkable_path_ptr_, tracking_progress_percentage_,
                            pc_goal, timer_frame, goal_frame >>
    /\ UNCHANGED world
    /\ UNCHANGED call
    /\ Dispatch

\* the early return that forgets to release the flag
TimerNotReadyKeepsFlag ==
    /\ pc_timer' = "idle"
    /\ ev' = "timer_done"
    /\ UNCHANGED << flag_planning_busy_, finalgoal_ptr_, walkable_path_ptr_,
                    timer_frame, published, statuses, solver_calls >>

\* the early return that publishes an empty path on its way out
TimerNotReadyPublishes ==
    /\ published' = Append(published, EmptyPathMsg)
    /\ flag_planning_busy_' = FALSE
    /\ pc_timer' = "idle"
    /\ ev' = "timer_done"
    /\ UNCHANGED << finalgoal_ptr_, walkable_path_ptr_, timer_frame, statuses,
                    solver_calls >>

\* timer_cb with no map or no goal: nothing but the release of the flag
TimerNotReady ==
    /\ flag_planning_busy_' = FALSE
    /\ pc_timer' = "idle"
    /\ ev' = "timer_done"
    /\ UNCHANGED << finalgoal_ptr_, walkable_path_ptr_, timer_frame, published,
                    statuses, solver_calls >>

\* the collision branch that drops the stored path as the arrival branch does
TimerCollisionResetsPath ==
    /\ published' = Append(published, EmptyPathMsg)
    /\ walkable_path_ptr_' = NullPath
    /\ statuses' = Append(statuses, "Collision detected")
    /\ flag_planning_busy_' = FALSE
    /\ pc_timer' = "idle"
    /\ ev' = "timer_done"
    /\ UNCHANGED << finalgoal_ptr_, timer_frame, solver_calls >>

\* the collision branch that returns without releasing the flag
TimerCollisionKeepsFlag ==
    /\ published' = Append(published, EmptyPathMsg)
    /\ statuses' = Append(statuses, "Collision detected")
    /\ pc_timer' = "idle"
    /\ ev' = "timer_done"
    /\ UNCHANGED << flag_planning_busy_, finalgoal_ptr_, walkable_path_ptr_, timer_frame,
                    solver_calls >>

\* timer_cb, if(!flag_footprint_safe)
TimerCollision ==
    /\ published' = Append(published, EmptyPathMsg)
    /\ statuses' = Append(statuses, "Collision detected")
    /\ flag_planning_busy_' = FALSE
    /\ pc_timer' = "idle"
    /\ ev' = "timer_done"
    /\ UNCHANGED << finalgoal_ptr_, walkable_path_ptr_, timer_frame, solver_calls >>

\* timer_cb, else if(dis_robot2goal <= map_resolution * 2)
TimerArrival ==
    /\ finalgoal_ptr_' = NullGoal
    /\ published' = Append(published, EmptyPathMsg)
    /\ walkable_path_ptr_' = NullPath
    /\ statuses' = Append(statuses, "finalgoal arrival")
    /\ flag_planning_busy_' = FALSE
    /\ pc_timer' = "idle"
    /\ ev' = "timer_done"
    /\ UNCHANGED << timer_frame, solver_calls >>

\* the branch that publishes the old path under a new stamp
TimerSteadyRestamps ==
    /\ walkable_path_ptr_' = [walkable_path_ptr_ EXCEPT !.stamp = time_now]
    /\ published' = Append(published, PathMsg(walkable_path_ptr_'))
    /\ flag_planning_busy_' = FALSE
    /\ pc_timer' = "idle"
    /\ ev' = "timer_done"
    /\ UNCHANGED << finalgoal_ptr_, timer_frame, statuses, solver_calls >>

\* timer_cb, the branch that publishes the old path
TimerSteady ==
    /\ published' = Append(published, PathMsg(walkable_path_ptr_))
    /\ flag_planning_busy_' = FALSE
    /\ pc_timer' = "idle"
    /\ ev' = "timer_done"
    /\ UNCHANGED << finalgoal_ptr_, walkable_path_ptr_, timer_frame, statuses,
                    solver_calls >>

\* timer_cb, the last else up to the call of FindPathByHashmap
TimerReplan(br, e) ==
    LET map == MapTable[localmap_ptr_]
    IN  \E sub \in TimerSubgoal(br, e) :
          /\ statuses' = statuses \o sub.status
          /\ walkable_path_ptr_' = NewPath
          /\ timer_frame' = [map |-> localmap_ptr_, tf |-> e.tf,
                             origin_idx |-> OriginIdx(map),
                             target_idx |-> CellIdx(map, sub.pt),
                             goal |-> NullGoal]
          /\ solver_calls' = solver_calls + 1
          /\ pc_timer' = "solve"
          /\ ev' = "timer_call"
          /\ UNCHANGED << flag_planning_busy_, finalgoal_ptr_, published >>

\* timer_cb from the first test of localmap_ptr_ to its return or to the call
\* of the solver
TimerBody ==
    /\ pc_timer = "body"
    /\ IF localmap_ptr_ = NullPtr \/ finalgoal_ptr_.null
       THEN /\ branch' = "not_ready"
            /\ eval' = eval
            /\ TimerNotReady
       ELSE \E look \in LookupTransform : \E e \in Evaluate(look) :
              LET br == TimerBranch(e)
              IN  /\ branch' = br
                  /\ eval' = e
                  /\ CASE br = "collision" -> TimerCollision
                       [] br = "arrival" -> TimerArrival
                       [] br = "steady" -> TimerSteady
                       [] OTHER -> TimerReplan(br, e)
    /\ UNCHANGED << localmap_ptr_, footprint_ptr_, tracking_progress_percentage_,
                    world, overlaps_left, call, pc_goal, goal_frame, entry_flag, msg, solver_result >>

\* the return of the solver that publishes nothing when no path was found
TimerSolvedSilentFailure ==
    /\ pc_timer = "solve"
    /\ \E out \in FindPathByHashmap(MapTable[timer_frame.map],
                                    timer_frame.origin_idx, timer_frame.target_idx) :
         IF out.success
         THEN /\ walkable_path_ptr_' = SolvedPath(out.poses, timer_frame.tf)
              /\ published' = Append(published, PathMsg(walkable_path_ptr_'))
              /\ solver_result' = "success"
         ELSE /\ solver_result' = "failure"
              /\ UNCHANGED << walkable_path_ptr_, published >>
    /\ flag_planning_busy_' = FALSE
    /\ pc_timer' = "idle"
    /\ timer_frame' = NoFrame
    /\ ev' = "timer_done"
    /\ UNCHANGED << localmap_ptr_, footprint_ptr_, finalgoal_ptr_,
                    tracking_progress_percentage_, world, overlaps_left, call, pc_goal, goal_frame,
                    entry_flag, msg, branch, eval, statuses, solver_calls >>

\* timer_cb from the return of the solver to its own return
TimerSolved ==
    /\ pc_timer = "solve"
    /\ \E out \in FindPathByHashmap(MapTable[timer_frame.map],
                                    timer_frame.origin_idx, timer_frame.target_idx) :
         IF out.success
         THEN /\ walkable_path_ptr_' = SolvedPath(out.poses, timer_frame.tf)
              /\ published' = Append(published, PathMsg(walkable_path_ptr_'))
              /\ solver_result' = "success"
         ELSE /\ published' = Append(published, PathMsg(walkable_path_ptr_))
              /\ solver_result' = "failure"
              /\ UNCHANGED walkable_path_ptr_
    /\ flag_planning_busy_' = FALSE
    /\ pc_timer' = "idle"
    /\ timer_frame' = NoFrame
    /\ ev' = "timer_done"
    /\ UNCHANGED << localmap_ptr_, footprint_ptr_, finalgoal_ptr_,
                    tracking_progress_percentage_, world, overlaps_left, call, pc_goal, goal_frame,
                    entry_flag, msg, branch, eval, statuses, solver_calls >>

\* finalgoal_cb: the flag is set and the goal stored
GoalEnter(goal_msg) ==
    /\ pc_goal = "idle"
    /\ flag_planning_busy_' = TRUE
    /\ finalgoal_ptr_' = goal_msg
    /\ pc_goal' = "body"
    /\ goal_frame' = [NoFrame EXCEPT !.goal = goal_msg]
    /\ CycleStarts("goal_enter")
    /\ UNCHANGED << localmap_ptr_, footprint_ptr_, walkable_path_ptr_,
                    tracking_progress_percentage_, world, pc_timer, timer_frame >>
    /\ UNCHANGED call
    /\ Dispatch

\* finalgoal_cb from the lookup of the transform to its return or to the call
\* of the solver
GoalBody ==
    /\ pc_goal = "body"
    /\ \E look \in LookupTransform :
       \E safe \in IF localmap_ptr_ = NullPtr THEN { FALSE }
                   ELSE is_footprint_safe(MapTable[localmap_ptr_], footprint_ptr_) :
         IF safe
         THEN LET map == MapTable[localmap_ptr_]
              IN  \E subgoal_pt \in SubgoalAt(map, goal_frame.goal, look.tf) :
                    /\ walkable_path_ptr_' = NewPath
                    /\ goal_frame' = [map |-> localmap_ptr_, tf |-> look.tf,
                                      origin_idx |-> OriginIdx(map),
                                      target_idx |-> CellIdx(map, subgoal_pt),
                                      goal |-> goal_frame.goal]
                    /\ solver_calls' = solver_calls + 1
                    /\ pc_goal' = "solve"
                    /\ ev' = "goal_call"
                    /\ UNCHANGED << flag_planning_busy_, statuses >>
         ELSE /\ statuses' = Append(statuses,
                    "Empty localmap or unsafe footprint, skip finalgoal assignment.")
              /\ flag_planning_busy_' = FALSE
              /\ pc_goal' = "idle"
              /\ goal_frame' = NoFrame
              /\ ev' = "goal_done"
              /\ UNCHANGED << walkable_path_ptr_, solver_calls >>
    /\ UNCHANGED << localmap_ptr_, footprint_ptr_, finalgoal_ptr_,
                    tracking_progress_percentage_, world, overlaps_left, call, pc_timer,
                    timer_frame,
                    entry_flag, msg, branch, eval, published, solver_result >>

\* finalgoal_cb that keeps the goal when the solver fails
GoalSolvedKeepsGoal ==
    /\ pc_goal = "solve"
    /\ \E out \in FindPathByHashmap(MapTable[goal_frame.map],
                                    goal_frame.origin_idx, goal_frame.target_idx) :
         IF out.success
         THEN /\ walkable_path_ptr_' = SolvedPath(out.poses, goal_frame.tf)
              /\ published' = Append(published, PathMsg(walkable_path_ptr_'))
              /\ solver_result' = "success"
              /\ UNCHANGED << finalgoal_ptr_, statuses >>
         ELSE /\ statuses' = Append(statuses,
                    "timeout for path planning to finalgoal, skip this finalgoal assignment.")
              /\ walkable_path_ptr_' = [walkable_path_ptr_ EXCEPT !.stamp = time_now]
              /\ published' = Append(published, PathMsg(walkable_path_ptr_'))
              /\ solver_result' = "failure"
              /\ UNCHANGED finalgoal_ptr_
    /\ flag_planning_busy_' = FALSE
    /\ pc_goal' = "idle"
    /\ goal_frame' = NoFrame
    /\ ev' = "goal_done"
    /\ UNCHANGED << localmap_ptr_, footprint_ptr_, tracking_progress_percentage_,
                    world, overlaps_left, call, pc_timer, timer_frame, entry_flag, msg,
                    branch, eval, solver_calls >>

\* finalgoal_cb from the return of the solver to its own return
GoalSolved ==
    /\ pc_goal = "solve"
    /\ \E out \in FindPathByHashmap(MapTable[goal_frame.map],
                                    goal_frame.origin_idx, goal_frame.target_idx) :
         IF out.success
         THEN /\ walkable_path_ptr_' = SolvedPath(out.poses, goal_frame.tf)
              /\ published' = Append(published, PathMsg(walkable_path_ptr_'))
              /\ solver_result' = "success"
              /\ UNCHANGED << finalgoal_ptr_, statuses >>
         ELSE /\ statuses' = Append(statuses,
                    "timeout for path planning to finalgoal, skip this finalgoal assignment.")
              /\ finalgoal_ptr_' = NullGoal
              /\ walkable_path_ptr_' = [walkable_path_ptr_ EXCEPT !.stamp = time_now]
              /\ published' = Append(published, PathMsg(walkable_path_ptr_'))
              /\ solver_result' = "failure"
    /\ flag_planning_busy_' = FALSE
    /\ pc_goal' = "idle"
    /\ goal_frame' = NoFrame
    /\ ev' = "goal_done"
    /\ UNCHANGED << localmap_ptr_, footprint_ptr_, tracking_progress_percentage_,
                    world, overlaps_left, call, pc_timer,
                    timer_frame, entry_flag, msg, branch, eval,
                    solver_calls >>

\* the map callback with its test the wrong way round
localmap_cb_inverted(map_msg) ==
    /\ IF flag_planning_busy_
       THEN localmap_ptr_' = map_msg
       ELSE UNCHANGED localmap_ptr_
    /\ Stores("localmap", map_msg)
    /\ UNCHANGED << flag_planning_busy_, footprint_ptr_, finalgoal_ptr_,
                    walkable_path_ptr_, tracking_progress_percentage_, world, control >>
    /\ UNCHANGED call
    /\ Dispatch

localmap_cb(map_msg) ==
    /\ IF ~flag_planning_busy_
       THEN localmap_ptr_' = map_msg
       ELSE UNCHANGED localmap_ptr_
    /\ Stores("localmap", map_msg)
    /\ UNCHANGED << flag_planning_busy_, footprint_ptr_, finalgoal_ptr_,
                    walkable_path_ptr_, tracking_progress_percentage_, world, control >>
    /\ UNCHANGED call
    /\ Dispatch

footprint_cb(footprint_msg) ==
    /\ footprint_ptr_' = footprint_msg
    /\ Stores("footprint", NullPtr)
    /\ UNCHANGED << flag_planning_busy_, localmap_ptr_, finalgoal_ptr_,
                    walkable_path_ptr_, tracking_progress_percentage_, world, control >>
    /\ UNCHANGED call
    /\ Dispatch

progress_cb(data) ==
    /\ tracking_progress_percentage_' = data
    /\ Stores("progress", NullPtr)
    /\ UNCHANGED << flag_planning_busy_, localmap_ptr_, footprint_ptr_, finalgoal_ptr_,
                    walkable_path_ptr_, world, control >>
    /\ UNCHANGED call
    /\ Dispatch

(***************************************************************************)
(* The world                                                               *)
(***************************************************************************)
AdvanceTime(dt) ==
    /\ time_now + dt <= MaxTime
    /\ time_now' = time_now + dt
    /\ UNCHANGED << node, robot_pose, control, overlaps_left, call, observed >>

MoveRobot(pose) ==
    /\ pose # robot_pose
    /\ robot_pose' = pose
    /\ UNCHANGED << node, time_now, control, overlaps_left, call, observed >>

(***************************************************************************)
(* Dispatch.  main() runs ros::spin(): one thread takes the callbacks off  *)
(* the queue one at a time, so none starts while another is in progress.   *)
(***************************************************************************)
\* a callback taken off the queue
Delivery ==
    \/ TimerEnter
    \/ \E p \in GoalPoints : GoalEnter(GoalMsg(p))
    \/ \E m \in MapIds : localmap_cb(m)
    \/ \E f \in FootprintIds : footprint_cb(f)
    \/ \E d \in ProgressValues : progress_cb(d)

\* a callback in progress going on
Progress == TimerBody \/ TimerSolved \/ GoalBody \/ GoalSolved

World ==
    \/ \E dt \in TimeSteps : AdvanceTime(dt)
    \/ \E pose \in RobotPoses : MoveRobot(pose)

Next == Delivery \/ Progress \/ World

Spec == Init /\ [][Next]_vars

\* a callback in progress goes on: the lookup of the transform waits at most
\* subgoal_timer_interval_, the solver returns within solver_timeout_ms_
FairSpec == Spec /\ WF_vars(Progress)

(***************************************************************************)
(* The node under a dispatcher that takes a callback off the queue while   *)
(* another is in progress (ros::MultiThreadedSpinner, ros::AsyncSpinner):  *)
(* the situation flag_planning_busy_ is written for.  MaxOverlap bounds    *)
(* the callbacks started that way in one run.                              *)
(***************************************************************************)
InitConcurrent == InitNode /\ overlaps_left = MaxOverlap

SpecConcurrent == InitConcurrent /\ [][Next]_vars

(***************************************************************************)
(* Infinite-travel mode: the constructor run with flag_infinity_traval_    *)
(* true, which leaves /move_base_simple/goal unsubscribed.                 *)
(***************************************************************************)
\* the subscriptions made whatever the flag
DeliveryInfiniteWithGoal ==
    \/ TimerEnter
    \/ \E p \in GoalPoints : GoalEnter(GoalMsg(p))
    \/ \E m \in MapIds : localmap_cb(m)
    \/ \E f \in FootprintIds : footprint_cb(f)
    \/ \E d \in ProgressValues : progress_cb(d)

\* a callback taken off the queue: the timer and the three subscriptions
\* made unconditionally; finalgoal_cb is bound to no topic
DeliveryInfinite ==
    \/ TimerEnter
    \/ \E m \in MapIds : localmap_cb(m)
    \/ \E f \in FootprintIds : footprint_cb(f)
    \/ \E d \in ProgressValues : progress_cb(d)

\* the timer callback never reaches the call of the solver in this mode, so
\* its step after that call is not among the steps
NextInfinite == DeliveryInfinite \/ TimerBody \/ World

SpecInfinite == Init /\ [][NextInfinite]_vars

(***************************************************************************)
(* The functions of the node, applied to arguments of their own: maps,     *)
(* cell indices (in the array or not), paths, progress values, clock       *)
(* readings, goals and transforms.  Each step applies one function and     *)
(* records the call; generate_subgoal finds in mkr_subgoal_candidate_ the  *)
(* points the call before left there.                                      *)
(***************************************************************************)
\* the maps whose every index is tried on the kernels
KernelMapIds == { 6 }

\* cell indices from two rows and two cells below the array to as far above
ProbeIdx(map) ==
    (-(2 * map.width + 2))..(MaxMapIdx(map) + 2 * map.width + 2)

\* the maps the predicates on paths are applied to
PredicateMapIds == { 4, 6 }

\* the maps wide enough for every ray to stay inside the array
SubgoalMapIds == { 1, 2, 5, 7 }

ProbeGoals == GoalPoints \cup { Pt(0, 1000), Pt(40, 0) }

\* no path, paths without poses, and paths of one and two poses
ProbePaths ==
    { NullPath }
      \cup { [null |-> FALSE, stamp |-> st, poses |-> ps] :
               st \in { 0, 1 },
               ps \in { << >>, << Pt(300, 0) >>, << Pt(150, 0), Pt(44, 0) >> } }

\* a path of LongPathLen poses, 5 cm apart, straight ahead
LongPath ==
    [null |-> FALSE, stamp |-> 0,
     poses |-> [n \in 1..LongPathLen |-> Pt(44 + 5 * (LongPathLen - n), 0)]]

\* tracking progress, in hundredths, inside [0, 1] and outside
ProbeProgress == { -50, 0, 50, 99, 100, 150 }

\* readings of ros::Time::now(), in tenths of a second
ProbeTimes == 49..52

CallMaxCost ==
    \E m \in KernelMapIds : \E idx \in ProbeIdx(AllMaps[m]) :
      LET map == AllMaps[m]
      IN  /\ call' = [fn |-> "get_local_max_cost", map |-> m, target_idx |-> idx,
                     bound |-> KernelSize(kMaxCostRadius, map) \div 2,
                     reads |-> KernelReads(map, idx, KernelSize(kMaxCostRadius, map) \div 2),
                     result |-> get_local_max_cost(map, idx),
                     points |-> call.points]
          /\ UNCHANGED << node, world, control, overlaps_left, observed >>

CallAvgCost ==
    \E m \in KernelMapIds : \E idx \in ProbeIdx(AllMaps[m]) :
      LET map == AllMaps[m]
      IN  /\ call' = [fn |-> "get_local_avg_cost", map |-> m, target_idx |-> idx,
                     bound |-> KernelSize(kAvgCostRadius, map) \div 2,
                     reads |-> KernelReads(map, idx, KernelSize(kAvgCostRadius, map) \div 2),
                     result |-> get_local_avg_cost(map, idx),
                     points |-> call.points]
          /\ UNCHANGED << node, world, control, overlaps_left, observed >>

CallGenerateSubgoal ==
    \E m \in SubgoalMapIds : \E p \in ProbeGoals : \E tf \in RobotPoses :
    \E r \in GenerateSubgoalFrom(call.points, AllMaps[m], GoalMsg(p), tf) :
      /\ call' = [fn |-> "generate_subgoal", map |-> m, goal |-> GoalMsg(p), tf |-> tf,
                 result |-> r.pt, radial |-> r.radial, i |-> r.i, j |-> r.j,
                 rays |-> r.rays, found |-> call.points, points |-> r.points]
      /\ UNCHANGED << node, world, control, overlaps_left, observed >>

CallIsSubgoalSafe ==
    \E m \in PredicateMapIds : \E path \in ProbePaths : \E tf \in RobotPoses :
    \E r \in is_subgoal_safe(AllMaps[m], path, Inverse(tf)) :
      /\ call' = [fn |-> "is_subgoal_safe", map |-> m, path |-> path, tf |-> tf,
                 raw |-> RawReads(AllMaps[m], path, Inverse(tf), 1),
                 result |-> r, points |-> call.points]
      /\ UNCHANGED << node, world, control, overlaps_left, observed >>

CallIsPathSafe ==
    \E m \in PredicateMapIds : \E path \in ProbePaths : \E tf \in RobotPoses :
    \E r \in is_path_safe(AllMaps[m], path, Inverse(tf)) :
      /\ call' = [fn |-> "is_path_safe", map |-> m, path |-> path, tf |-> tf,
                 raw |-> RawReads(AllMaps[m], path, Inverse(tf), Len(path.poses)),
                 result |-> r, points |-> call.points]
      /\ UNCHANGED << node, world, control, overlaps_left, observed >>

CallIsPathDeprecated ==
    \E path \in ProbePaths : \E now \in ProbeTimes :
      /\ call' = [fn |-> "is_path_deprecated", path |-> path, now |-> now,
                 result |-> is_path_deprecated(path, now), points |-> call.points]
      /\ UNCHANGED << node, world, control, overlaps_left, observed >>

CallIsRobotFollowingPath ==
    \E path \in ProbePaths \cup { LongPath } :
    \E progress \in ProbeProgress : \E tf \in RobotPoses :
    \E r \in is_robot_following_path(path, progress, Inverse(tf)) :
      /\ call' = [fn |-> "is_robot_following_path", path |-> path,
                 progress |-> progress, tf |-> tf,
                 target_idx |-> IF path.null \/ Len(path.poses) < 1 THEN 0
                                ELSE TrackingIdx(Len(path.poses), progress),
                 result |-> r, points |-> call.points]
      /\ UNCHANGED << node, world, control, overlaps_left, observed >>

NextFunctions ==
    \/ CallMaxCost
    \/ CallAvgCost
    \/ CallGenerateSubgoal
    \/ CallIsSubgoalSafe
    \/ CallIsPathSafe
    \/ CallIsPathDeprecated
    \/ CallIsRobotFollowingPath

SpecFunctions == Init /\ [][NextFunctions]_vars

(***************************************************************************)
(* Properties                                                              *)
(***************************************************************************)
\* a decision cycle (timer_cb or finalgoal_cb) is between its entry and its return
InFlight == pc_timer # "idle" \/ pc_goal # "idle"

\* the step is timer_cb going from its first test to its return or to the solver
TimerBodyStep == pc_timer = "body" /\ pc_timer' # "body"

\* C1: in every reachable state at most one decision cycle, started by the
\* timer or by a goal assignment, is executing.
C1_SingleFlight == ~(pc_timer # "idle" /\ pc_goal # "idle")

\* a timer cycle waiting for the solver, the goal handler idle
C1_Witness ==
    pc_timer = "solve" /\ pc_goal = "idle" /\ flag_planning_busy_ /\ solver_calls = 1

\* C2: whenever no decision cycle is executing the flag is false, whichever
\* way the last cycle returned (not ready, collision, arrival, steady state,
\* replanning with the solver succeeding or failing, both outcomes of the
\* goal handler), and a flag that is set is eventually released.
C2_FlagReleased ==
    /\ [](~InFlight => ~flag_planning_busy_)
    /\ [](ev \in { "timer_done", "goal_done" } => ~flag_planning_busy_)
    /\ (flag_planning_busy_ ~> ~flag_planning_busy_)

\* a tick that returned early for want of a goal, the flag released
C2_Witness ==
    /\ ev = "timer_done"
    /\ branch = "not_ready"
    /\ entry_flag = FALSE
    /\ ~flag_planning_busy_

C5_BranchPriority ==
    (ev \in { "timer_call", "timer_done" } /\ eval.ready) =>
        LET e == eval
            cond == << ~e.footprint_safe,
                       e.dis2 <= 4 * e.resolution * e.resolution,
                       /\ (e.dis2 <= 150 * 150 \/ e.progress < 70)
                       /\ e.path_safe
                       /\ e.robot_following_path
                       /\ ~e.path_deprecated,
                       e.progress >= 70,
                       e.path_present /\ ~e.subgoal_safe,
                       e.path_present /\ (~e.path_safe \/ e.path_deprecated),
                       e.path_present /\ ~e.robot_following_path,
                       TRUE >>
            name == << "collision", "arrival", "steady", "subgoal_arrival",
                       "unsafe_subgoal", "unsafe_path", "off_path", "no_path" >>
            first == CHOOSE i \in 1..8 : cond[i] /\ \A k \in 1..(i - 1) : ~cond[k]
        IN  /\ branch = name[first]
            /\ (cond[1] /\ cond[2]) => (branch = "collision" /\ ~finalgoal_ptr_.null)

\* the footprint unsafe with the goal within two cells: collision, goal kept
C5_Witness ==
    /\ ev = "timer_done"
    /\ eval.ready
    /\ ~eval.footprint_safe
    /\ eval.dis2 <= 4 * eval.resolution * eval.resolution
    /\ branch = "collision"
    /\ ~finalgoal_ptr_.null

\* C6: a tick with map and goal present and the footprint unsafe publishes
\* one empty path and the status "Collision detected", does not call the
\* solver, leaves the goal and the stored path as they were and returns with
\* the flag false.
C6_CollisionBranch ==
    [][ ( /\ TimerBodyStep
          /\ localmap_ptr_ # NullPtr
          /\ ~finalgoal_ptr_.null
          /\ is_footprint_safe(MapTable[localmap_ptr_], footprint_ptr_) = { FALSE } )
        => /\ published' = << EmptyPathMsg >>
           /\ statuses' = << "Collision detected" >>
           /\ solver_calls' = 0
           /\ pc_timer' = "idle"
           /\ ~flag_planning_busy_'
           /\ UNCHANGED << finalgoal_ptr_, walkable_path_ptr_ >> ]_vars

\* a collision tick that returned with a path still stored
C6_Witness ==
    /\ ev = "timer_done"
    /\ branch = "collision"
    /\ published = << EmptyPathMsg >>
    /\ ~walkable_path_ptr_.null
    /\ Len(walkable_path_ptr_.poses) > 0
    /\ ~finalgoal_ptr_.null

\* C7: a tick with the footprint safe and the goal at no more than two cells
\* (the boundary included) clears the goal and the stored path, publishes one
\* empty path and the status "finalgoal arrival", does not call the solver
\* and returns with the flag false; while the goal is cleared every tick is
\* a no-op, and only a goal assignment sets a goal again.
C7_ArrivalBranch ==
    [][ /\ ( /\ TimerBodyStep
             /\ eval'.ready
             /\ eval'.footprint_safe
             /\ eval'.dis2 <= 4 * eval'.resolution * eval'.resolution )
           => /\ finalgoal_ptr_'.null
              /\ walkable_path_ptr_'.null
              /\ published' = << EmptyPathMsg >>
              /\ statuses' = << "finalgoal arrival" >>
              /\ solver_calls' = 0
              /\ pc_timer' = "idle"
              /\ ~flag_planning_busy_'
        /\ (TimerBodyStep /\ finalgoal_ptr_.null)
           => /\ published' = << >>
              /\ statuses' = << >>
              /\ solver_calls' = 0
              /\ pc_timer' = "idle"
              /\ UNCHANGED << localmap_ptr_, footprint_ptr_, finalgoal_ptr_,
                              walkable_path_ptr_, tracking_progress_percentage_ >>
        /\ (finalgoal_ptr_.null /\ ~finalgoal_ptr_'.null) => ev' = "goal_enter" ]_vars

\* arrival with the goal at exactly two cells
C7_Witness ==
    /\ ev = "timer_done"
    /\ branch = "arrival"
    /\ eval.dis2 = 4 * eval.resolution * eval.resolution
    /\ finalgoal_ptr_.null
    /\ walkable_path_ptr_.null

\* C8: a tick that is neither a collision nor an arrival, with the goal
\* within 1.5 m or the progress below 0.7 and the stored path safe, followed
\* and not deprecated, publishes exactly the stored path, its waypoints and
\* its stamp as they were, does not call the solver and changes neither the
\* path nor the goal nor the map, so that the next such tick publishes the
\* same message.
C8_SteadyStateIdempotent ==
    [][ ( /\ TimerBodyStep
          /\ eval'.ready
          /\ eval'.footprint_safe
          /\ eval'.dis2 > 4 * eval'.resolution * eval'.resolution
          /\ (eval'.dis2 <= 150 * 150 \/ eval'.progress < 70)
          /\ eval'.path_safe
          /\ eval'.robot_following_path
          /\ ~eval'.path_deprecated )
        => /\ published' = << [stamp |-> walkable_path_ptr_.stamp,
                               poses |-> walkable_path_ptr_.poses] >>
           /\ solver_calls' = 0
           /\ pc_timer' = "idle"
           /\ ~flag_planning_busy_'
           /\ UNCHANGED << walkable_path_ptr_, finalgoal_ptr_, localmap_ptr_ >> ]_vars

\* a steady tick some time after the path was stamped, the goal at 1.5 m
C8_Witness ==
    /\ ev = "timer_done"
    /\ branch = "steady"
    /\ eval.dis2 = 150 * 150
    /\ Len(walkable_path_ptr_.poses) > 0
    /\ time_now > walkable_path_ptr_.stamp
    /\ published = << [stamp |-> walkable_path_ptr_.stamp,
                       poses |-> walkable_path_ptr_.poses] >>

\* C9: a tick with no map or no goal publishes nothing, does not call the
\* solver and leaves map, footprint, path, goal and progress as they were;
\* the tick sets the flag on entry and clears it on return, nothing else.
C9_NotReadyNoOp ==
    [][ /\ (TimerBodyStep /\ (localmap_ptr_ = NullPtr \/ finalgoal_ptr_.null))
           => /\ published' = << >>
              /\ statuses' = << >>
              /\ solver_calls' = 0
              /\ pc_timer' = "idle"
              /\ ~flag_planning_busy_'
              /\ UNCHANGED << localmap_ptr_, footprint_ptr_, walkable_path_ptr_,
                              finalgoal_ptr_, tracking_progress_percentage_ >>
        /\ (pc_timer = "idle" /\ pc_timer' = "body")
           => /\ ~flag_planning_busy_
              /\ flag_planning_busy_'
              /\ UNCHANGED << localmap_ptr_, footprint_ptr_, walkable_path_ptr_,
                              finalgoal_ptr_, tracking_progress_percentage_ >> ]_vars

\* a tick with a goal and no map that returned without publishing
C9_Witness ==
    /\ ev = "timer_done"
    /\ branch = "not_ready"
    /\ localmap_ptr_ = NullPtr
    /\ ~finalgoal_ptr_.null
    /\ published = << >>
    /\ ~flag_planning_busy_

\* C10: a tick whose call of the solver failed has published one path, has
\* sent a status on robot_status and has called the solver once.
C10_FailureReported ==
    (ev = "timer_done" /\ solver_result = "failure") =>
        /\ Len(published) = 1
        /\ solver_calls = 1
        /\ statuses # << >>

\* C11: when the solver fails in finalgoal_cb the goal is cleared; when it
\* fails in a tick the goal is kept as it was, and a tick that finds the
\* empty path such a failure leaves, with the footprint safe and the goal
\* beyond two cells, calls the solver again for the goal unchanged.
C11_GoalOnSolverFailure ==
    [][ /\ (pc_goal = "solve" /\ pc_goal' = "idle" /\ solver_result' = "failure")
           => finalgoal_ptr_'.null
        /\ (pc_timer = "solve" /\ pc_timer' = "idle" /\ solver_result' = "failure")
           => (~finalgoal_ptr_'.null /\ finalgoal_ptr_' = finalgoal_ptr_)
        /\ ( /\ TimerBodyStep
             /\ ~walkable_path_ptr_.null
             /\ Len(walkable_path_ptr_.poses) = 0
             /\ eval'.ready
             /\ eval'.footprint_safe
             /\ eval'.dis2 > 4 * eval'.resolution * eval'.resolution )
           => /\ pc_timer' = "solve"
              /\ solver_calls' = 1
              /\ finalgoal_ptr_' = finalgoal_ptr_ ]_vars

\* a tick whose solver call failed, the goal still there
C11_Witness ==
    /\ ev = "timer_done"
    /\ solver_result = "failure"
    /\ solver_calls = 1
    /\ ~finalgoal_ptr_.null
    /\ ~walkable_path_ptr_.null
    /\ Len(walkable_path_ptr_.poses) = 0

\* C12: finalgoal_cb that returns without calling the solver (no map, or the
\* footprint unsafe) leaves no goal behind.
C12_GoalClearedWithoutSafety ==
    (ev = "goal_done" /\ solver_calls = 0) => finalgoal_ptr_.null

C14_SubgoalWithinBounds ==
    ev = "goal_call" =>
        LET map == MapTable[goal_frame.map]
            goal_base == Apply(Inverse(goal_frame.tf),
                               Pt(goal_frame.goal.x, goal_frame.goal.y))
            column == (goal_base.x - map.origin_x) \div map.resolution
            row == (goal_base.y - map.origin_y) \div map.resolution
            within == /\ 0 <= column /\ column < map.width
                      /\ 0 <= row /\ row < map.height
        IN  goal_frame.target_idx \in
              { CellIdx(map, p) :
                  p \in IF within THEN { goal_base } ELSE RadialSearch(map, goal_base) }


\* C15: the danger threshold is inclusive in the radial search as it is in
\* is_subgoal_safe: a candidate the radial search accepts (the cell sampled
\* at step j of ray i) has get_local_max_cost below kThresObstacleDangerCost,
\* so the point returned passes the cost test of is_subgoal_safe on the same
\* map.
C15_RadialSearchInclusive ==
    (call.fn = "generate_subgoal" /\ call.radial /\ call.j >= kFirstDistanceIdx) =>
        LET map == AllMaps[call.map]
        IN  ~(get_local_max_cost(map, RayCellIdx(map, call.i, call.j))
                >= kThresObstacleDangerCost)


\* C16: a path that is null or has no poses gets the conservative answer of
\* every predicate: is_subgoal_safe false, is_path_safe false,
\* is_path_deprecated true, is_robot_following_path false, whatever the
\* progress reported (inside [0, 1] or outside).
C16_EmptyPathConservative ==
    (/\ call.fn \in { "is_subgoal_safe", "is_path_safe", "is_path_deprecated",
                      "is_robot_following_path" }
     /\ (call.path.null \/ call.path.poses = << >>))
    => call.result = (call.fn = "is_path_deprecated")

\* is_robot_following_path applied to no path with a progress above 1
C16_Witness ==
    /\ call.fn = "is_robot_following_path"
    /\ call.path.null
    /\ call.progress > 100
    /\ call.result = FALSE


\* C17: is_path_deprecated is true of a path that is null or has no poses;
\* of a path with poses it is true exactly when the clock reads more than
\* 5.0 s past the stamp of the path: false at 4.9 s and at 5.0 s, true at
\* 5.1 s.
C17_PathDeprecatedStrict ==
    call.fn = "is_path_deprecated" =>
        LET age == call.now - call.path.stamp
        IN  call.result = (\/ call.path.null
                           \/ call.path.poses = << >>
                           \/ age > 50)

\* is_path_deprecated applied to a path with poses stamped exactly 5.0 s ago
C17_Witness ==
    /\ call.fn = "is_path_deprecated"
    /\ call.path.poses # << >>
    /\ call.now - call.path.stamp = 50
    /\ call.result = FALSE


C19_KernelNoRowWrap ==
    call.fn \in { "get_local_max_cost", "get_local_avg_cost" } =>
        LET map == AllMaps[call.map]
        IN  \A c \in call.reads :
              /\ 0 <= c /\ c <= map.width * map.height - 1
              /\ (c % map.width) - (call.target_idx % map.width)
                   \in -call.bound..call.bound


\* C20: generate_subgoal is a function of its arguments: called with the
\* same map, goal and transform it returns the same point whatever calls
\* went before and whatever points they left in mkr_subgoal_candidate_
\* (call.found); the table of best steps per ray is rebuilt from zero.
C20_GenerateSubgoalDeterministic ==
    call.fn = "generate_subgoal" =>
        generate_subgoal(AllMaps[call.map], call.goal, call.tf) = { call.result }

\* a radial search that found in the marker the points of another search
C20_Witness ==
    /\ call.fn = "generate_subgoal"
    /\ call.radial
    /\ Len(call.found) = Len(call.points)
    /\ call.found # call.points


\* C21: the radial search, ray by ray: the steps j = 3..round(8.0 / 0.6) are
\* sampled in increasing order up to the first whose get_local_max_cost
\* exceeds the danger threshold or whose cell is unknown; the best step of
\* the ray is the smallest of the steps sampled before that stop that attain
\* the largest score among them, the score of the ray is that score, and it
\* is 0 when no step was sampled before the stop.
C21_RayBestStep ==
    (call.fn = "generate_subgoal" /\ call.radial) =>
        LET map == AllMaps[call.map]
            goal_base == Apply(Inverse(call.tf), Pt(call.goal.x, call.goal.y))
            stops(i, j) ==
                \/ get_local_max_cost(map, RayCellIdx(map, i, j)) > kThresObstacleDangerCost
                \/ RawCost(map, RayCellIdx(map, i, j)) = { -1 }
            sampled(i) ==
                { j \in 3..RoundDiv(800, 60) : \A q \in 3..j : ~stops(i, q) }
            score(i, j) ==
                CandidateScore(get_local_max_cost(map, RayCellIdx(map, i, j)),
                               goal_base, i, j)
        IN  \A k \in 1..Len(call.rays) :
              LET i == 16 - (k - 1)
                  best == call.rays[k]
              IN  IF sampled(i) = {} THEN best.score = 0
                  ELSE /\ best.j \in sampled(i)
                       /\ best.score = score(i, best.j)
                       /\ \A q \in sampled(i) :
                            /\ score(i, q) <= best.score
                            /\ score(i, q) = best.score => best.j <= q


\* C22: the radial search returns the best point of the ray with the largest
\* candidate score; of several rays with that score it takes the one met
\* first as i goes down from 16 (the largest i); when the score of every ray
\* is 0 it returns the point of ray 16 at distance 0, the path-start offset
\* point.
C22_AngleSelection ==
    (call.fn = "generate_subgoal" /\ call.radial) =>
        LET n == Len(call.rays)
            largest(k) == \A l \in 1..n : call.rays[l].score <= call.rays[k].score
            first == CHOOSE k \in 1..n :
                         largest(k) /\ \A e \in 1..(k - 1) : ~largest(e)
        IN  /\ n = 15
            /\ call.i = 16 - (first - 1)
            /\ call.j = call.rays[first].j
            /\ call.result =
                 Pt(44 + RoundDiv(60 * call.j * SinK[call.i], 1000),
                    0 + RoundDiv(60 * call.j * CosK[call.i], 1000))
            /\ (\A k \in 1..n : call.rays[k].score = 0)
                 => call.i = 16 /\ call.result = Pt(44, 0)

\* a radial search in which a ray met later scores as much as the ray chosen
C22_Witness ==
    /\ call.fn = "generate_subgoal"
    /\ call.radial
    /\ call.j >= 3
    /\ \E l \in (16 - call.i + 2)..Len(call.rays) :
         call.rays[l].score = call.rays[16 - call.i + 1].score


\* C23: the reads of the raw cell stay inside the array: every index at
\* which is_subgoal_safe or is_path_safe reads map_msg_ptr->data lies in
\* [0, width * height - 1], and a pose whose cell falls outside the map gets
\* an answer without such a read.
C23_RawReadsInsideGrid ==
    call.fn \in { "is_subgoal_safe", "is_path_safe" } =>
        \A idx \in call.raw :
            0 <= idx /\ idx <= AllMaps[call.map].width * AllMaps[call.map].height - 1


\* C24: the index of the pose is_robot_following_path reads, the integer
\* conversion of L * (0.99 - progress), lies in [0, L - 1] for every path of
\* L >= 1 poses and every progress in [0, 1].
C24_TrackingIndexInRange ==
    (/\ call.fn = "is_robot_following_path"
     /\ ~call.path.null
     /\ Len(call.path.poses) >= 1
     /\ call.progress \in 0..100)
    => call.target_idx \in 0..(Len(call.path.poses) - 1)


\* C25: the branch for an unsafe or deprecated path, which takes the first
\* pose of the stored path as the point to plan to, is taken only while the
\* stored path has a pose: a tick that finds no path or a path without poses
\* never takes it, and one that finds a path without poses and gets past
\* collision, arrival and subgoal arrival takes the unsafe-subgoal branch.
C25_StalePathBranchHasWaypoint ==
    [][ TimerBodyStep =>
          /\ branch' = "unsafe_path" =>
               (~walkable_path_ptr_.null /\ Len(walkable_path_ptr_.poses) >= 1)
          /\ (/\ ~walkable_path_ptr_.null
              /\ walkable_path_ptr_.poses = << >>
              /\ branch' \notin { "not_ready", "collision", "arrival", "subgoal_arrival" })
             => branch' = "unsafe_subgoal" ]_vars

\* a tick past the tests of collision, arrival and subgoal arrival whose
\* stored path failed every test, as a path without poses does: it took the
\* unsafe-subgoal branch and planned anew
C25_Witness ==
    /\ ev = "timer_call"
    /\ branch = "unsafe_subgoal"
    /\ eval.path_present
    /\ ~eval.path_safe
    /\ eval.path_deprecated
    /\ statuses = << "new subgoal is generated" >>

\* C26: the last branch, no path, is taken only by a tick that finds no
\* stored path (a null pointer); a tick with map and goal that finds a path
\* stored and gets past collision and arrival takes one of steady state,
\* subgoal arrival, unsafe subgoal, unsafe or deprecated path, off path,
\* whatever the predicates return.
C26_NoPathBranchOnlyWithoutPath ==
    [][ TimerBodyStep =>
          /\ branch' = "no_path" => walkable_path_ptr_.null
          /\ (/\ ~walkable_path_ptr_.null
              /\ branch' \notin { "not_ready", "collision", "arrival" })
             => branch' \in { "steady", "subgoal_arrival", "unsafe_subgoal",
                              "unsafe_path", "off_path" } ]_vars

\* a tick that took the last branch, with no path stored
C26_Witness ==
    /\ ev = "timer_call"
    /\ branch = "no_path"
    /\ ~eval.path_present
    /\ eval.footprint_safe


\* C27: the steady state cannot outlive the staleness window.  The
\* steady-state branch republishes the stored path without touching its
\* stamp, and only while the path is at most 5.0 s old; a tick with map and
\* goal that finds a path with poses older than that, the footprint safe and
\* the goal not reached, counts the path as deprecated and calls the solver
\* instead of republishing.
C27_SteadyStateWithinStaleness ==
    [][ TimerBodyStep =>
          /\ branch' = "steady" =>
               /\ time_now - walkable_path_ptr_.stamp <= 50
               /\ walkable_path_ptr_' = walkable_path_ptr_
               /\ published' = << PathMsg(walkable_path_ptr_) >>
               /\ solver_calls' = 0
          /\ (/\ ~walkable_path_ptr_.null
              /\ walkable_path_ptr_.poses # << >>
              /\ time_now - walkable_path_ptr_.stamp > 50
              /\ branch' \notin { "not_ready", "collision", "arrival" })
             => /\ eval'.path_deprecated
                /\ branch' \in { "subgoal_arrival", "unsafe_subgoal", "unsafe_path",
                                 "off_path" }
                /\ pc_timer' = "solve"
                /\ solver_calls' = 1
                /\ published' = << >> ]_vars

\* a tick that found a path passing every test but that of its age, and
\* called the solver
C27_Witness ==
    /\ ev = "timer_call"
    /\ branch = "unsafe_path"
    /\ eval.subgoal_safe
    /\ eval.path_safe
    /\ eval.robot_following_path
    /\ eval.path_deprecated
    /\ eval.progress < 70
    /\ statuses = << "subgoal is too old" >>
    /\ solver_calls = 1


\* C28: one publication and at most one solver call per cycle.  A tick that
\* has returned has published exactly one path message if it found map and
\* goal, and none otherwise; it called the solver not at all in the
\* collision, arrival and steady-state branches and exactly once in each
\* replanning branch; the path published by the steady-state branch has
\* poses, so a path without poses comes from the collision branch, the
\* arrival branch or a solve that failed.
C28_OnePublicationPerCycle ==
    ev = "timer_done" =>
      /\ branch = "not_ready" => (published = << >> /\ solver_calls = 0)
      /\ branch # "not_ready" => (eval.ready /\ Len(published) = 1)
      /\ branch \in { "collision", "arrival", "steady" } =>
           (solver_calls = 0 /\ solver_result = "none")
      /\ branch \in { "subgoal_arrival", "unsafe_subgoal", "unsafe_path", "off_path",
                      "no_path" } =>
           (solver_calls = 1 /\ solver_result \in { "success", "failure" })
      /\ branch = "steady" => published[1].poses # << >>
      /\ \A k \in 1..Len(published) :
           published[k].poses = << >> =>
             \/ branch \in { "collision", "arrival" }
             \/ solver_result = "failure"

\* a tick that called the solver once, found no path and published the
\* path without poses
C28_Witness ==
    /\ ev = "timer_done"
    /\ branch = "off_path"
    /\ solver_calls = 1
    /\ solver_result = "failure"
    /\ published = << EmptyPathMsg >>


\* C29: with the callbacks taken off the queue one at a time, every handler
\* (timer, goal, map, footprint, progress) finds the busy flag false when it
\* starts; the timer never takes its "busy" return, and every map handed
\* over is stored.
C29_FlagFalseAtEveryEntry ==
    /\ ev \in { "timer_enter", "timer_skip", "goal_enter", "localmap", "footprint",
                "progress" } => ~entry_flag
    /\ ev # "timer_skip"
    /\ ev = "localmap" => localmap_ptr_ = msg
    /\ CanDispatch => ~flag_planning_busy_

\* a tick that starts after an earlier cycle has left a path behind, and
\* finds the flag false
C29_Witness ==
    /\ ev = "timer_enter"
    /\ ~entry_flag
    /\ pc_timer = "body"
    /\ ~walkable_path_ptr_.null
    /\ walkable_path_ptr_.poses # << >>


\* C30: in infinite-travel mode no goal is ever stored: every tick returns
\* by the not-ready path, the solver is never called and no path is ever
\* published or kept.
C30_InfiniteTravelNeverPlans ==
    /\ finalgoal_ptr_.null
    /\ pc_timer # "solve"
    /\ pc_goal = "idle"
    /\ branch \in { "none", "not_ready" }
    /\ ev = "timer_done" => branch = "not_ready"
    /\ solver_calls = 0
    /\ solver_result = "none"
    /\ published = << >>
    /\ walkable_path_ptr_.null

\* a tick that returned with a map and a footprint in store and no goal
C30_Witness ==
    /\ ev = "timer_done"
    /\ branch = "not_ready"
    /\ localmap_ptr_ # NullPtr
    /\ footprint_ptr_ # NullPtr
    /\ finalgoal_ptr_.null
    /\ tracking_progress_percentage_ >= kThresPercentageOfArrival
    /\ published = << >>

=============================================================================
